---- MODULE Spec2Model ----
(***************************************************************************)
(* Model of GeneticAlgorithm (src/ga.py).                                  *)
(*                                                                         *)
(* Numbers.  Parameter values and scores are fixed-point: the integer v    *)
(* stands for the real v / Scale.  A product or a mean that falls between  *)
(* two grid points is rounded down to the grid, where the float arithmetic *)
(* of the program rounds at its own (much finer) resolution.  Rates and    *)
(* random draws are exact fractions <<numerator, denominator>>.            *)
(*                                                                         *)
(* Objects.  An individual is a Python dict, a mutable object that the     *)
(* population list, the mating pool and the caller of run refer to.  heap  *)
(* maps a cell (the object's identity) to the tuple of its values in       *)
(* parameter order, or to Nil for a cell that holds no object.             *)
(*                                                                         *)
(* Control.  run is followed through its loops; pc is its position:        *)
(*   "idle"    no call of run is in progress;                              *)
(*   "loop"    at the head of the generation loop of run;                  *)
(*   "breed"   in _mating_pool, at the head of its breeding loop;          *)
(*   "assign"  _mating_pool has returned, self.population is not yet set.  *)
(* ret is what the last finished call gave its caller: the returned best   *)
(* individual and history, or the exception raised.                        *)
(*                                                                         *)
(* Two optimizers are run side by side on the same random draws: ga, which *)
(* scores with f, and twin, which scores with the negation of f and is     *)
(* given the opposite objective.  call holds the arguments of the last     *)
(* call of run and runs counts the calls.                                  *)
(***************************************************************************)
EXTENDS Integers, Sequences, FiniteSets, TLC

VARIABLES ga, twin, call, runs

vars == <<ga, twin, call, runs>>

----------------------------------------------------------------------------
(* Bounds of the model: the population size given to the constructor, the *)
(* largest generations argument, the number of calls of run, and the      *)
(* resolution of the value grid.                                          *)

pop_size == 2
MaxGenerations == 2
MaxRuns == 2
Scale == 2

(* Constructor arguments; the boundaries are in units of 1 / Scale *)

precision == 0
parameters == <<"a", "b">>
boundaries == << <<0, 2>>, <<1, 3>> >>

(* The arguments run is called with *)

Modes == {"maximize", "minimize", "average"}
Selects == {"rank", "roulette", "tournament"}
Explorations == { <<1, 4>>, <<2, 1>> }
KeepTops == 1..(pop_size + 1)
Generations == 0..MaxGenerations

(* np.random.uniform(0, 1) yields u = k / DrawDen; uniform(-bound, bound)   *)
(* is -bound + 2 * bound * u.                                               *)
DrawDen == 4
Draws == 0..(DrawDen - 1)

NParams == Len(parameters)
Nil == << >>
NoneRate == <<0, 0>>
Cells == 1..(2 * pop_size + 1)
HeldCell == pop_size + 1

----------------------------------------------------------------------------
(* Arithmetic helpers *)

RECURSIVE SumTo(_, _)
SumTo(w, k) == IF k = 0 THEN 0 ELSE w[k] + SumTo(w, k - 1)

Min2(a, b) == IF a < b THEN a ELSE b
Max2(a, b) == IF a > b THEN a ELSE b

Pow10(k) == IF k = 0 THEN 1 ELSE IF k = 1 THEN 10 ELSE 100

(* Python's round(): to the nearest, a tie to the even neighbour.  The     *)
(* result of round(num / den) for den > 0.                                 *)
RoundHalfEven(num, den) ==
    LET q == num \div den
        r == num % den
    IN  IF 2 * r < den THEN q
        ELSE IF 2 * r > den THEN q + 1
        ELSE IF q % 2 = 0 THEN q ELSE q + 1

(* round(score, self._precision): score is in units of 1 / Scale, the      *)
(* result in units of 10 ^ -precision.                                     *)
Round(score) == RoundHalfEven(score * Pow10(precision), Scale)

----------------------------------------------------------------------------
(* The evaluator: a plain function of the parameter values.  ga is built   *)
(* on f, twin on its negation.                                             *)

f(vals) == vals[1] - vals[2]

model(s, vals) == IF s.model = "f" THEN f(vals) ELSE 0 - f(vals)

model_predict(s, c) == model(s, s.heap[c])

(* A variant of _model_fitness that forgets the sign of a minimization *)
fitnessUnsigned(s, c) == model(s, s.heap[c])

_model_fitness(s, c) ==
    LET prediction == model(s, s.heap[c])
    IN  IF s.mode = "minimize" THEN prediction * (-1) ELSE prediction

(* sorted(population, key=self._model_fitness): ascending and stable.      *)
_sort_pop(s, population) ==
    LET n == Len(population)
        key(i) == _model_fitness(s, population[i])
        before(i) == Cardinality({j \in 1..n :
                        \/ key(j) < key(i)
                        \/ key(j) = key(i) /\ j < i})
    IN  [k \in 1..n |-> population[CHOOSE i \in 1..n : before(i) = k - 1]]

----------------------------------------------------------------------------
(* Selection.  A selection returns [err, ind, idx]: err is "" and ind, idx *)
(* the selected individual and its 1-based position in sorted_pop, or err  *)
(* names the exception the call ends in.                                   *)

Selected(ind, idx) == [err |-> "", ind |-> ind, idx |-> idx]
Failed(err) == [err |-> err, ind |-> 0, idx |-> 0]

(* The cumulative walk of both selections: the first idx with              *)
(* draw <= cumulative, where cumulative is the sum of weight[1..idx] over  *)
(* summation and draw is d / DrawDen; 0 if the loop ends without a return. *)
Walk(weight, n, summation, d) ==
    LET hit(idx) == d * summation <= SumTo(weight, idx) * DrawDen
    IN  IF \E idx \in 1..n : hit(idx)
        THEN CHOOSE idx \in 1..n : hit(idx) /\ \A j \in 1..(idx - 1) : ~hit(j)
        ELSE 0

RouletteOffset(s, sorted_pop) ==
    LET lowest_fitness == _model_fitness(s, sorted_pop[1])
    IN  IF lowest_fitness < 0 THEN 0 - lowest_fitness ELSE 0

RouletteSummation(s, sorted_pop, summation) ==
    summation + RouletteOffset(s, sorted_pop) * Len(sorted_pop)

RouletteWeights(s, sorted_pop) ==
    [idx \in 1..Len(sorted_pop) |->
        _model_fitness(s, sorted_pop[idx]) + RouletteOffset(s, sorted_pop)]

RankWeights(sorted_pop) == [idx \in 1..Len(sorted_pop) |-> idx]

(* fitness / summation divides by zero when the shifted total is 0; a loop *)
(* that ends without a return yields None, which the caller cannot unpack. *)
roulette_select(s, sorted_pop, summation, d) ==
    LET total == RouletteSummation(s, sorted_pop, summation)
        idx == Walk(RouletteWeights(s, sorted_pop), Len(sorted_pop), total, d)
    IN  IF total = 0 THEN Failed("ZeroDivisionError")
        ELSE IF idx = 0 THEN Failed("TypeError")
        ELSE Selected(sorted_pop[idx], idx)

rank_select(s, sorted_pop, summation, d) ==
    LET idx == Walk(RankWeights(sorted_pop), Len(sorted_pop), summation, d)
    IN  IF idx = 0 THEN Failed("TypeError")
        ELSE Selected(sorted_pop[idx], idx)

select(s, sorted_pop, summation, d) ==
    IF s.select = "roulette_select"
    THEN roulette_select(s, sorted_pop, summation, d)
    ELSE rank_select(s, sorted_pop, summation, d)

----------------------------------------------------------------------------
(* Variation operators *)

(* cross = {}: a new dict, in the first unused cell above the caller's.    *)
FreshCell(h) == CHOOSE c \in Cells :
    /\ c > HeldCell
    /\ h[c] = Nil
    /\ \A b \in Cells : (b > HeldCell /\ b < c) => h[b] # Nil

(* A variant of _crossover that writes the means into parent a and        *)
(* returns that dict instead of a new one.                                 *)
crossoverInPlace(h, a, b) ==
    [heap |-> [h EXCEPT ![a] =
                  [k \in 1..NParams |-> (h[a][k] + h[b][k]) \div 2]],
     ref |-> a]

(* np.mean([v, v2]) per parameter, rounded down to the grid.  Returns the  *)
(* heap with the child in it and the child's cell.                         *)
_crossover(h, a, b) ==
    LET cross == FreshCell(h)
    IN  [heap |-> [h EXCEPT ![cross] =
                      [k \in 1..NParams |-> (h[a][k] + h[b][k]) \div 2]],
         ref |-> cross]

(* A variant of clamp that never advances x: every value is clamped to the *)
(* range of the first parameter.                                           *)
clampFirst(itr, x) == Min2(Max2(itr, boundaries[1][1]), boundaries[1][2])

(* min(max(itr, self.boundaries[x][0]), self.boundaries[x][1]); x counts   *)
(* the keys from 1 here.                                                   *)
clamp(itr, x) == Min2(Max2(itr, boundaries[x][1]), boundaries[x][2])

(* individual[k] + np.random.uniform(-bound, bound) for bound = rate * v   *)
(* and the draw d / DrawDen, rounded down to the grid.                     *)
Perturb(v, rate, d) ==
    (v * rate[2] * DrawDen + rate[1] * v * (2 * d - DrawDen))
        \div (rate[2] * DrawDen)

(* Mutates the dict in cell individual in place; noise[x] is the draw for  *)
(* the x-th key.                                                           *)
_mutation(s, h, individual, mutation_prob, noise) ==
    LET rate == IF s.dynamic THEN mutation_prob ELSE s.mutation_rate
    IN  [h EXCEPT ![individual] =
            [x \in 1..NParams |-> clamp(Perturb(h[individual][x], rate, noise[x]), x)]]

(* A variant of InvertRank that leaves the rank as selected *)
InvertRankKept(r) == r

(* r1 = self.pop_size - r1 + 1 *)
InvertRank(r) == pop_size - r + 1

(* self.mutation_rate * (np.mean([r1, r2]) / self.pop_size), or None *)
MutationProb(s, r1, r2) ==
    IF s.dynamic
    THEN <<s.mutation_rate[1] * (r1 + r2), s.mutation_rate[2] * 2 * pop_size>>
    ELSE NoneRate

----------------------------------------------------------------------------
(* The optimizer object and the frame of its run method *)

NoRet == [kind |-> "none", err |-> "", best |-> 0, hist |-> << >>,
          mode |-> "", vals |-> Nil]

(* _initialize_pop, given the values drawn: individual i in cell i.        *)
_initialize_pop(vals) ==
    [heap |-> [c \in Cells |-> IF c <= Len(vals) THEN vals[c] ELSE Nil],
     population |-> [i \in 1..Len(vals) |-> i]]

(* __init__: the run attributes do not exist yet.                          *)
construct(m, vals) ==
    [model |-> m,
     heap |-> _initialize_pop(vals).heap,
     population |-> _initialize_pop(vals).population,
     mode |-> "", select |-> "", dynamic |-> FALSE, mutation_rate |-> NoneRate,
     top |-> 0, _gen |-> 0, _exp |-> NoneRate,
     pc |-> "idle", x |-> 0, best_hist |-> << >>, mpool |-> << >>,
     sorted_pop |-> << >>, summation |-> 0, ranks |-> <<0, 0>>,
     r1 |-> 0, r2 |-> 0, mutation_prob |-> NoneRate,
     ret |-> NoRet, evals |-> FALSE]

(* The values of the individuals of a list of cells *)
Values(s, cells) == [i \in 1..Len(cells) |-> s.heap[cells[i]]]

(* An exception leaves run: the frame is gone, the objects only the frame  *)
(* referred to are garbage, and the caller receives no value.              *)
Raise(s, err) ==
    [s EXCEPT !.pc = "idle", !.x = 0, !.best_hist = << >>, !.mpool = << >>,
              !.sorted_pop = << >>, !.summation = 0, !.ranks = <<0, 0>>,
              !.r1 = 0, !.r2 = 0, !.mutation_prob = NoneRate,
              !.heap = [c \in Cells |->
                          IF c \in {s.population[i] : i \in 1..Len(s.population)}
                          THEN s.heap[c] ELSE Nil],
              !.ret = [NoRet EXCEPT !.kind = "raise", !.err = err]]

----------------------------------------------------------------------------
(* run, in the steps of its loops *)

ValidSelect(sel) == sel \in {"roulette", "rank"}

(* A variant of ValidMode that rejects nothing *)
ValidModeAny(mode) == TRUE

ValidMode(mode) == mode \in {"maximize", "minimize"}

(* A variant of KeepTop without the fallback *)
KeepTopAsGiven(keep_top) == keep_top

(* if keep_top > self.pop_size: self.top = 1, else self.top = keep_top *)
KeepTop(keep_top) == IF keep_top > pop_size THEN 1 ELSE keep_top

(* The head of run: the attributes it sets and the two validations, each   *)
(* raising after the assignments that precede it.                          *)
run_call(s, mode, sel, boltzmann, generations, exploration, keep_top) ==
    LET s1 == [s EXCEPT !._gen = generations, !._exp = exploration,
                        !.dynamic = boltzmann, !.mutation_rate = exploration,
                        !.evals = FALSE]
        s2 == [s1 EXCEPT !.select = IF sel = "roulette" THEN "roulette_select"
                                    ELSE "rank_select",
                         !.top = KeepTop(keep_top)]
    IN  IF ~ValidSelect(sel) THEN Raise(s1, "ValueError")
        ELSE IF ~ValidMode(mode) THEN Raise(s2, "ValueError")
        ELSE [s2 EXCEPT !.mode = mode, !.best_hist = << >>, !.x = 0,
                        !.pc = "loop"]

(* A variant of HistEntry that records the fitness, not the raw score *)
HistEntryFitness(s) ==
    LET sorted == _sort_pop(s, s.population)
    IN  Round(_model_fitness(s, sorted[Len(sorted)]))

(* round(self.model_predict(self._sort_pop(self.population)[-1]), precision) *)
HistEntry(s) ==
    LET sorted == _sort_pop(s, s.population)
    IN  Round(model_predict(s, sorted[Len(sorted)]))

(* summation, as _mating_pool computes it for the selection in use *)
Summation(s) ==
    IF s.select = "roulette_select"
    THEN SumTo([i \in 1..Len(s.population) |->
                   _model_fitness(s, s.population[i])], Len(s.population))
    ELSE SumTo([i \in 1..pop_size |-> i], pop_size)

(* One pass of the loop head of run: the history entry, then the start of  *)
(* _mating_pool.                                                           *)
loop_record(s) ==
    [s EXCEPT !.best_hist = Append(@, HistEntry(s)),
              !.mpool = << >>,
              !.sorted_pop = _sort_pop(s, s.population),
              !.summation = Summation(s),
              !.evals = TRUE,
              !.pc = "breed"]

(* One iteration of the breeding loop of _mating_pool *)
breed(s, d1, d2, noise) ==
    LET sel1 == select(s, s.sorted_pop, s.summation, d1)
        sel2 == select(s, s.sorted_pop, s.summation, d2)
        r1 == InvertRank(sel1.idx)
        r2 == InvertRank(sel2.idx)
        mutation_prob == MutationProb(s, r1, r2)
        x_new == _crossover(s.heap, sel1.ind, sel2.ind)
    IN  IF sel1.err # "" THEN Raise(s, sel1.err)
        ELSE IF sel2.err # "" THEN Raise(s, sel2.err)
        ELSE [s EXCEPT !.ranks = <<sel1.idx, sel2.idx>>, !.r1 = r1, !.r2 = r2, !.mutation_prob = mutation_prob,
                       !.heap = _mutation(s, x_new.heap, x_new.ref,
                                          mutation_prob, noise),
                       !.mpool = Append(@, x_new.ref)]

(* A variant of Elites that indexes sorted_pop from its front *)
ElitesFromFront(s) == [x \in 1..s.top |-> s.sorted_pop[x]]

(* for x in range(1, self.top + 1): mpool.append(sorted_pop[-x]) *)
Elites(s) ==
    [x \in 1..s.top |-> s.sorted_pop[Len(s.sorted_pop) + 1 - x]]

(* A variant of elites that puts the kept individuals before the children *)
elitesFirst(s) ==
    IF s.top > Len(s.sorted_pop) THEN Raise(s, "IndexError")
    ELSE [s EXCEPT !.mpool = Elites(s) \o @, !.pc = "assign"]

(* The elitism loop and the return of _mating_pool *)
elites(s) ==
    IF s.top > Len(s.sorted_pop) THEN Raise(s, "IndexError")
    ELSE [s EXCEPT !.mpool = @ \o Elites(s), !.pc = "assign"]

(* The cell an object of the new population is kept in: the first position *)
(* of the new list that refers to it.                                      *)
NewCell(mpool, c) ==
    CHOOSE j \in 1..Len(mpool) :
        mpool[j] = c /\ \A i \in 1..(j - 1) : mpool[i] # c

InList(list, c) == \E i \in 1..Len(list) : list[i] = c

(* self.population = self._mating_pool(): the old list and the frame of    *)
(* _mating_pool are dropped.  The object the caller holds from the last    *)
(* run stays alive whether or not the new population refers to it.         *)
assign(s) ==
    LET held == s.ret.best
        kept == held # 0 /\ InList(s.mpool, held)
    IN  [s EXCEPT
          !.population = [i \in 1..Len(s.mpool) |-> NewCell(s.mpool, s.mpool[i])],
          !.heap = [c \in Cells |->
                      IF c <= Len(s.mpool) /\ NewCell(s.mpool, s.mpool[c]) = c
                      THEN s.heap[s.mpool[c]]
                      ELSE IF c = HeldCell /\ held # 0 /\ ~kept
                      THEN s.heap[held]
                      ELSE Nil],
          !.ret.best = IF held = 0 THEN 0
                       ELSE IF kept THEN NewCell(s.mpool, held)
                       ELSE HeldCell,
          !.mpool = << >>, !.sorted_pop = << >>, !.summation = 0,
          !.ranks = <<0, 0>>, !.r1 = 0, !.r2 = 0, !.mutation_prob = NoneRate,
          !.x = s.x + 1,
          !.pc = "loop"]

(* best = self._sort_pop(self.population)[-1]; return best, best_hist *)
finish(s) ==
    LET sorted == _sort_pop(s, s.population)
        best == sorted[Len(sorted)]
    IN  [s EXCEPT
          !.ret = [kind |-> "return", err |-> "", best |-> best,
                   hist |-> s.best_hist, mode |-> s.mode, vals |-> s.heap[best]],
          !.heap = [c \in Cells |-> IF c = HeldCell /\ best # HeldCell
                                   THEN Nil ELSE s.heap[c]],
          !.evals = TRUE,
          !.x = 0, !.best_hist = << >>,
          !.pc = "idle"]

----------------------------------------------------------------------------
(* The twin optimizer is given the opposite objective. *)
Opposite(mode) ==
    IF mode = "maximize" THEN "minimize"
    ELSE IF mode = "minimize" THEN "maximize"
    ELSE mode

(* The populations construct can draw: every value at an end of its range  *)
InitValues == [1..pop_size -> [1..NParams -> {1, 2}]]

InitPop(choice) ==
    [i \in 1..pop_size |-> [k \in 1..NParams |-> boundaries[k][choice[i][k]]]]

NoCall == [mode |-> "", select |-> "", keep_top |-> 0, generations |-> 0]

Init ==
    \E choice \in InitValues :
        /\ ga = construct("f", InitPop(choice))
        /\ twin = construct("negf", InitPop(choice))
        /\ call = NoCall
        /\ runs = 0

(* A call of run with arguments drawn from the given sets *)
RunWith(modes, selects, flags, gens, explorations, keepTops) ==
    /\ ga.pc = "idle"
    /\ \E mode \in modes, sel \in selects, boltzmann \in flags,
          generations \in gens, exploration \in explorations,
          keep_top \in keepTops :
        /\ ga' = run_call(ga, mode, sel, boltzmann, generations, exploration,
                          keep_top)
        /\ twin' = IF twin.pc = "idle"
                   THEN run_call(twin, Opposite(mode), sel, boltzmann,
                                 generations, exploration, keep_top)
                   ELSE twin
        /\ call' = [mode |-> mode, select |-> sel, keep_top |-> keep_top,
                    generations |-> generations]
    /\ runs' = runs + 1

Record ==
    /\ ga.pc = "loop"
    /\ ga.x < ga._gen
    /\ ga' = loop_record(ga)
    /\ twin' = IF twin.pc = "loop" /\ twin.x < twin._gen
               THEN loop_record(twin) ELSE twin
    /\ UNCHANGED <<call, runs>>

Breed ==
    /\ ga.pc = "breed"
    /\ Len(ga.mpool) < pop_size - ga.top
    /\ \E d1 \in Draws, d2 \in Draws, noise \in [1..NParams -> Draws] :
        /\ ga' = breed(ga, d1, d2, noise)
        /\ twin' = IF twin.pc = "breed" /\ Len(twin.mpool) < pop_size - twin.top
                   THEN breed(twin, d1, d2, noise) ELSE twin
    /\ UNCHANGED <<call, runs>>

ElitesStep ==
    /\ ga.pc = "breed"
    /\ Len(ga.mpool) >= pop_size - ga.top
    /\ ga' = elites(ga)
    /\ twin' = IF twin.pc = "breed" /\ Len(twin.mpool) >= pop_size - twin.top
               THEN elites(twin) ELSE twin
    /\ UNCHANGED <<call, runs>>

Assign ==
    /\ ga.pc = "assign"
    /\ ga' = assign(ga)
    /\ twin' = IF twin.pc = "assign" THEN assign(twin) ELSE twin
    /\ UNCHANGED <<call, runs>>

Finish ==
    /\ ga.pc = "loop"
    /\ ga.x >= ga._gen
    /\ ga' = finish(ga)
    /\ twin' = IF twin.pc = "loop" /\ twin.x >= twin._gen
               THEN finish(twin) ELSE twin
    /\ UNCHANGED <<call, runs>>

(* The first run of a newly constructed optimizer, with any arguments *)
RunCall ==
    /\ runs = 0
    /\ RunWith(Modes, Selects, BOOLEAN, Generations, Explorations, KeepTops)

Next == RunCall \/ Record \/ Breed \/ ElitesStep \/ Assign \/ Finish

Spec == Init /\ [][Next]_vars

(* A sequence of runs of the same optimizer.  Each run has one generation  *)
(* or more and the arguments that do not decide how runs follow each other *)
(* are held fixed.                                                         *)
RunAgain ==
    /\ runs < MaxRuns
    /\ RunWith({"maximize", "minimize"}, {"rank", "roulette"}, {TRUE},
               Generations \ {0}, { <<2, 1>> }, {1})

NextRuns == RunAgain \/ Record \/ Breed \/ ElitesStep \/ Assign \/ Finish

SpecRuns == Init /\ [][NextRuns]_vars

----------------------------------------------------------------------------
(* Properties *)

InBounds(vals) ==
    \A k \in 1..NParams :
        boundaries[k][1] <= vals[k] /\ vals[k] <= boundaries[k][2]

(* The child bred last in the running _mating_pool, its parents and the    *)
(* rate its mutation used                                                  *)
LastChild(s) == s.heap[s.mpool[Len(s.mpool)]]
Bred(s) == s.pc = "breed" /\ Len(s.mpool) >= 1
UsedRate(s) == IF s.dynamic THEN s.mutation_prob ELSE s.mutation_rate
Crossed(s) ==
    [k \in 1..NParams |->
        (s.heap[s.sorted_pop[s.ranks[1]]][k]
            + s.heap[s.sorted_pop[s.ranks[2]]][k]) \div 2]

(* C1: every value of every individual (of the population, of the mating   *)
(* pool being built, and of the object returned to the caller) lies within *)
(* the bounds of its own parameter, and so does the crossover of any two   *)
(* individuals of the population before it is mutated.                     *)
C1_Bounds ==
    /\ \A c \in Cells : ga.heap[c] # Nil => InBounds(ga.heap[c])
    /\ \A i, j \in 1..Len(ga.population) :
          LET x_new == _crossover(ga.heap, ga.population[i], ga.population[j])
          IN  InBounds(x_new.heap[x_new.ref])

(* C1 witness: a child was bred whose mutation left the range of a         *)
(* parameter and was clamped to the bound of that parameter.               *)
C1_Witness ==
    /\ Bred(ga)
    /\ \E noise \in [1..NParams -> Draws] :
          /\ LastChild(ga) =
                [x \in 1..NParams |->
                    clamp(Perturb(Crossed(ga)[x], UsedRate(ga), noise[x]), x)]
          /\ \E x \in 1..NParams :
                ~InBounds([k \in 1..NParams |->
                    IF k = x THEN Perturb(Crossed(ga)[x], UsedRate(ga), noise[x])
                    ELSE LastChild(ga)[k]])

(* The last call of run named no objective or no selection of the program *)
InvalidCall ==
    \/ call.mode \notin {"maximize", "minimize"}
    \/ call.select \notin {"rank", "roulette"}

(* C2: the population always has pop_size individuals, _mating_pool        *)
(* returns pop_size individuals, a keep_top above pop_size is replaced by  *)
(* 1, and a run called with such a keep_top, a named objective and a named *)
(* selection does not raise.                                               *)
C2_SizeAndFallback ==
    /\ Len(ga.population) = pop_size
    /\ ga.pc = "assign" => Len(ga.mpool) = pop_size
    /\ ga.pc # "idle" =>
          ga.top = (IF call.keep_top > pop_size THEN 1 ELSE call.keep_top)
    /\ (runs > 0 /\ call.keep_top > pop_size /\ ~InvalidCall) =>
          ga.ret.kind # "raise"

(* The part of C2 the program satisfies: the sizes and the fallback of C2, *)
(* and a run raises nothing but the ValueError of an invalid argument or,  *)
(* under roulette selection, the ZeroDivisionError of a zero divisor.      *)
C2_PopulationSize ==
    /\ Len(ga.population) = pop_size
    /\ ga.pc = "assign" => Len(ga.mpool) = pop_size
    /\ ga.pc # "idle" =>
          ga.top = (IF call.keep_top > pop_size THEN 1 ELSE call.keep_top)
    /\ ga.ret.kind = "raise" =>
          \/ /\ ga.ret.err = "ValueError"
             /\ InvalidCall
          \/ /\ ga.ret.err = "ZeroDivisionError"
             /\ call.select = "roulette"

(* A run called with keep_top above pop_size has returned after at least   *)
(* one generation.                                                         *)
C2_Witness ==
    /\ ga.ret.kind = "return"
    /\ call.keep_top > pop_size
    /\ Len(ga.ret.hist) >= 1
    /\ Len(ga.population) = pop_size

NonDecreasing(h) == \A i \in 1..(Len(h) - 1) : h[i] <= h[i + 1]
NonIncreasing(h) == \A i \in 1..(Len(h) - 1) : h[i] >= h[i + 1]

(* C3 as stated: under either objective the values appended to the         *)
(* convergence history never decrease from one generation to the next.     *)
C3_HistoryNonDecreasing ==
    /\ ga.pc # "idle" => NonDecreasing(ga.best_hist)
    /\ ga.ret.kind = "return" => NonDecreasing(ga.ret.hist)

(* C3 amended: the history never decreases when the objective is maximize  *)
(* and never increases when the objective is minimize.                     *)
C3_HistoryMonotone ==
    /\ ga.pc # "idle" =>
          IF ga.mode = "minimize" THEN NonIncreasing(ga.best_hist)
          ELSE NonDecreasing(ga.best_hist)
    /\ ga.ret.kind = "return" =>
          IF ga.ret.mode = "minimize" THEN NonIncreasing(ga.ret.hist)
          ELSE NonDecreasing(ga.ret.hist)

(* C3 witness: a minimizing run returned a history whose second entry is   *)
(* below its first.                                                        *)
C3_Witness ==
    /\ ga.ret.kind = "return"
    /\ ga.ret.mode = "minimize"
    /\ Len(ga.ret.hist) >= 2
    /\ ga.ret.hist[2] < ga.ret.hist[1]

(* A selection is about to be called *)
Selecting(s) == s.pc = "breed" /\ Len(s.mpool) < pop_size - s.top

(* C4: whenever a selection is called its weights are a probability        *)
(* distribution: under rank selection the ranks sum to summation; under    *)
(* roulette selection the divisor is not zero, no shifted weight is        *)
(* negative and the shifted weights sum to the divisor.                    *)
C4_SelectionNormalized ==
    Selecting(ga) =>
        IF ga.select = "rank_select"
        THEN /\ ga.summation > 0
             /\ SumTo(RankWeights(ga.sorted_pop), Len(ga.sorted_pop)) = ga.summation
        ELSE LET total == RouletteSummation(ga, ga.sorted_pop, ga.summation)
                 weight == RouletteWeights(ga, ga.sorted_pop)
             IN  /\ total # 0
                 /\ \A idx \in 1..Len(ga.sorted_pop) : weight[idx] >= 0
                 /\ SumTo(weight, Len(ga.sorted_pop)) = total

(* C5: minimizing f and maximizing its negation on the same draws keep the *)
(* two optimizers in the same state: the same individuals in the same      *)
(* order in the population and in the mating pool, the same position in    *)
(* run, and the same outcome with the same best individual.                *)
C5_Symmetry ==
    /\ ga.pc = twin.pc
    /\ ga.x = twin.x
    /\ ga.pc # "idle" => twin.mode = Opposite(ga.mode)
    /\ Values(ga, ga.population) = Values(twin, twin.population)
    /\ Values(ga, ga.mpool) = Values(twin, twin.mpool)
    /\ ga.ret.kind = twin.ret.kind
    /\ ga.ret.err = twin.ret.err
    /\ ga.ret.best = twin.ret.best
    /\ ga.ret.vals = twin.ret.vals

(* C5 witness: a minimizing run and its maximizing twin both returned,     *)
(* after two generations of which the first improved the best score.       *)
C5_Witness ==
    /\ ga.ret.kind = "return"
    /\ twin.ret.kind = "return"
    /\ ga.ret.mode = "minimize"
    /\ twin.ret.mode = "maximize"
    /\ Len(ga.ret.hist) >= 2
    /\ ga.ret.hist[1] # ga.ret.hist[2]
    /\ ga.ret.vals = twin.ret.vals

(* C6: a call of run with an invalid objective or selection name raises    *)
(* ValueError at once: the call leaves no run in progress, returns neither *)
(* a best individual nor a history, has not invoked the evaluator, and     *)
(* leaves the population list and the values of its individuals as they    *)
(* were before the call.                                                   *)
C6_FailFast ==
    /\ [](runs > 0 /\ InvalidCall =>
            /\ ga.pc = "idle"
            /\ ga.ret = [NoRet EXCEPT !.kind = "raise", !.err = "ValueError"]
            /\ ~ga.evals)
    /\ [][runs' = runs + 1 /\ InvalidCall' =>
            /\ ga'.population = ga.population
            /\ Values(ga', ga'.population) = Values(ga, ga.population)]_vars

(* C6 witness: a call with a valid selection name and an invalid objective *)
(* has raised.                                                             *)
C6_Witness ==
    /\ runs > 0
    /\ call.select \in {"rank", "roulette"}
    /\ call.mode \notin {"maximize", "minimize"}
    /\ ga.ret.kind = "raise"

(* The individuals of highest fitness among the given cells *)
Fittest(s, cells) ==
    {c \in {cells[i] : i \in 1..Len(cells)} :
        \A i \in 1..Len(cells) : _model_fitness(s, cells[i]) <= _model_fitness(s, c)}

(* C7: the history grows by one entry per generation, recorded before the  *)
(* generation breeds: the rounded raw score of a fittest individual of the *)
(* population entering the generation.  Breeding and the replacement of    *)
(* the population append nothing.  A run returns after exactly             *)
(* `generations` replacements, with a history of `generations` entries and *)
(* the fittest individual of the final population.                         *)
C7_HistoryTiming ==
    /\ [](/\ ga.pc = "loop" => Len(ga.best_hist) = ga.x /\ ga.x <= call.generations
          /\ ga.pc \in {"breed", "assign"} =>
                Len(ga.best_hist) = ga.x + 1 /\ ga.x < call.generations
          /\ ga.pc = "idle" /\ ga.ret.kind = "return" =>
                /\ Len(ga.ret.hist) = call.generations
                /\ ga.ret.best \in Fittest(ga, ga.population))
    /\ [][/\ ga.pc = "loop" /\ ga'.pc = "breed" =>
                /\ \E c \in Fittest(ga, ga.population) :
                      ga'.best_hist =
                          Append(ga.best_hist, Round(model(ga, ga.heap[c])))
                /\ ga'.population = ga.population
                /\ ga'.x = ga.x
          /\ ga.pc = "breed" /\ ga'.pc # "idle" => ga'.best_hist = ga.best_hist
          /\ ga.pc = "assign" => ga'.best_hist = ga.best_hist /\ ga'.x = ga.x + 1
          /\ ga.pc = "loop" /\ ga'.pc = "idle" =>
                ga'.ret.hist = ga.best_hist /\ ga.x = call.generations]_vars

(* C7 witness: a minimizing run of two generations has returned a history  *)
(* of two entries, none of which is the rounded score of the best          *)
(* individual it returned.                                                 *)
C7_Witness ==
    /\ ga.pc = "idle"
    /\ ga.ret.kind = "return"
    /\ ga.ret.mode = "minimize"
    /\ call.generations = 2
    /\ Len(ga.ret.hist) = 2
    /\ \A g \in 1..2 : ga.ret.hist[g] # Round(model(ga, ga.ret.vals))

(* Fractions <<numerator, denominator>> with positive denominators *)
FracLeq(p, q) == p[1] * q[2] <= q[1] * p[2]
FracEq(p, q) == p[1] * q[2] = q[1] * p[2]

(* exploration * ((pop_size - r1 + 1) + (pop_size - r2 + 1)) / 2 / pop_size *)
(* for the selected ranks r1 and r2                                        *)
Schedule(exploration, rank1, rank2) ==
    <<exploration[1] * ((pop_size - rank1 + 1) + (pop_size - rank2 + 1)),
      exploration[2] * 2 * pop_size>>

(* C8: after a child is bred in adaptive mode the rate handed to its       *)
(* mutation is the schedule's value for the ranks of its parents, and the  *)
(* child is the mutation of the crossover at that rate; the schedule does  *)
(* not grow with either rank, is exploration for two worst parents,        *)
(* exploration / pop_size for two best, and lies between the two.  In      *)
(* static mode the child is the mutation of the crossover at exploration.  *)
C8_AdaptiveSchedule ==
    Bred(ga) =>
        LET claimed == IF ga.dynamic
                       THEN Schedule(ga._exp, ga.ranks[1], ga.ranks[2])
                       ELSE ga._exp
        IN  /\ ga.dynamic => FracEq(ga.mutation_prob, claimed)
            /\ \E noise \in [1..NParams -> Draws] :
                  LastChild(ga) =
                      [x \in 1..NParams |->
                          clamp(Perturb(Crossed(ga)[x], claimed, noise[x]), x)]
            /\ ga.dynamic =>
                  /\ FracLeq(ga.mutation_prob, ga._exp)
                  /\ FracLeq(<<ga._exp[1], ga._exp[2] * pop_size>>, ga.mutation_prob)
                  /\ ga.ranks = <<1, 1>> => FracEq(ga.mutation_prob, ga._exp)
                  /\ ga.ranks = <<pop_size, pop_size>> =>
                        FracEq(ga.mutation_prob, <<ga._exp[1], ga._exp[2] * pop_size>>)
                  /\ \A a \in 1..pop_size, b \in 1..pop_size :
                        /\ a >= ga.ranks[1] =>
                              FracLeq(MutationProb(ga, InvertRank(a), ga.r2),
                                      ga.mutation_prob)
                        /\ b >= ga.ranks[2] =>
                              FracLeq(MutationProb(ga, ga.r1, InvertRank(b)),
                                      ga.mutation_prob)

(* C8 witness: in adaptive mode a child was bred from the best individual  *)
(* mated with itself and was perturbed.                                    *)
C8_Witness ==
    /\ Bred(ga)
    /\ ga.dynamic
    /\ ga.ranks = <<pop_size, pop_size>>
    /\ FracEq(ga.mutation_prob, <<ga._exp[1], ga._exp[2] * pop_size>>)
    /\ LastChild(ga) # Crossed(ga)

(* The top of the sorted current population and of the sorted next one,    *)
(* when _mating_pool has returned the next population                      *)
OldTop(s) == s.sorted_pop[Len(s.sorted_pop)]
NewTop(s) == _sort_pop(s, s.mpool)[Len(s.mpool)]

(* C9 as stated: the top of the next population is the individual that was *)
(* the top of the current one, or one of strictly greater fitness.         *)
C9_EliteKeepsTop ==
    ga.pc = "assign" =>
        \/ NewTop(ga) = OldTop(ga)
        \/ _model_fitness(ga, NewTop(ga)) > _model_fitness(ga, OldTop(ga))

(* C9 amended: the top of the next population is the top of the current    *)
(* one, or an individual of strictly greater fitness, or, when keep_top is *)
(* 2 or more, another of the kept individuals whose fitness equals that of *)
(* the current top.  A bred child of equal fitness never takes the top.    *)
C9_EliteOrTiedElite ==
    ga.pc = "assign" =>
        \/ NewTop(ga) = OldTop(ga)
        \/ _model_fitness(ga, NewTop(ga)) > _model_fitness(ga, OldTop(ga))
        \/ /\ ga.top >= 2
           /\ _model_fitness(ga, NewTop(ga)) = _model_fitness(ga, OldTop(ga))
           /\ \E x \in 1..ga.top :
                 NewTop(ga) = ga.sorted_pop[Len(ga.sorted_pop) + 1 - x]

(* C9 witness: with keep_top = 1 a bred child ties with the kept           *)
(* individual, which stays at the top.                                     *)
C9_Witness ==
    /\ ga.pc = "assign"
    /\ ga.top = 1
    /\ NewTop(ga) = OldTop(ga)
    /\ \E i \in 1..Len(ga.mpool) :
          /\ ga.mpool[i] # OldTop(ga)
          /\ _model_fitness(ga, ga.mpool[i]) = _model_fitness(ga, OldTop(ga))

(* C10: a call of run leaves the population as the previous run left it;   *)
(* while a run follows a run that returned under the same objective, its   *)
(* first history entry is the rounded raw score of the individual that run *)
(* returned; and the individual the caller holds keeps the values it was   *)
(* returned with.                                                          *)
C10_Continuation ==
    /\ [](/\ ga.ret.kind = "return" =>
                ga.ret.best # 0 /\ ga.heap[ga.ret.best] = ga.ret.vals
          /\ (/\ ga.pc # "idle"
              /\ ga.ret.kind = "return"
              /\ ga.ret.mode = ga.mode
              /\ Len(ga.best_hist) >= 1) =>
                ga.best_hist[1] = Round(model(ga, ga.ret.vals)))
    /\ [][runs' = runs + 1 =>
            /\ ga'.population = ga.population
            /\ Values(ga', ga'.population) = Values(ga, ga.population)]_vars

(* C10 witness: in a second run under the same objective the individual    *)
(* returned by the first run has left the population, and the caller's     *)
(* object still has the values it was returned with.                       *)
C10_Witness ==
    /\ runs = 2
    /\ ga.pc = "loop"
    /\ ga.ret.kind = "return"
    /\ ga.ret.mode = ga.mode
    /\ ga.ret.best = HeldCell
    /\ ga.heap[HeldCell] = ga.ret.vals
    /\ ga.best_hist[1] = Round(model(ga, ga.ret.vals))

====
